---- MODULE Spec2Model ----
(***************************************************************************)
(* LR automata construction of sdk-rust/src/lr.rs: items, closures,        *)
(* kernels, the state graph, the LALR(1) pipeline and the reduction        *)
(* builders, run over a pool of small grammars.                            *)
(***************************************************************************)
EXTENDS Integers, Sequences, FiniteSets, TLC

VARIABLES grammar, method, pc, states, idx, graph0, kernels, propagation,
          conflicts, prev

vars == <<grammar, method, pc, states, idx, graph0, kernels, propagation,
          conflicts, prev>>

(***************************************************************************)
(* Symbols and terminals                                                   *)
(***************************************************************************)
SymVariable(n) == [s |-> "Variable", id |-> n]
SymTerminal(n) == [s |-> "Terminal", id |-> n]
SymVirtual(n) == [s |-> "Virtual", id |-> n]
SymDollar == [s |-> "Dollar", id |-> 0]
NoSymbol == [s |-> "None", id |-> 0]

Terminal(n) == [t |-> "Terminal", id |-> n]
Epsilon == [t |-> "Epsilon", id |-> 0]
Dollar == [t |-> "Dollar", id |-> 0]
Dummy == [t |-> "Dummy", id |-> 0]
NullTerminal == [t |-> "NullTerminal", id |-> 0]

\* impl From<TerminalRef> for SymbolRef
TermToSym(t) == [s |-> t.t, id |-> t.id]

\* Iteration order of a TerminalSet's content
TermRank(t) ==
    CASE t.t = "Dummy" -> 0
      [] t.t = "Epsilon" -> 1
      [] t.t = "Dollar" -> 2
      [] t.t = "NullTerminal" -> 3
      [] OTHER -> 4 + t.id

RECURSIVE TermContent(_)
TermContent(set) ==
    IF set = {} THEN <<>>
    ELSE LET m == CHOOSE t \in set : \A u \in set : TermRank(t) <= TermRank(u)
         IN <<m>> \o TermContent(set \ {m})

(***************************************************************************)
(* Grammars: the input form (variables with rule bodies and contexts) and  *)
(* the prepared form the builder consumes (choices and firsts computed).   *)
(***************************************************************************)
GENERATED_AXIOM == "__VAxiom"

R(parts, context) == [parts |-> parts, context |-> context]
V(id, name, rules) == [id |-> id, name |-> name, rules |-> rules]

RawVariable(raw, id) ==
    raw[CHOOSE k \in DOMAIN raw : raw[k].id = id]

\* FIRST of a sequence of symbols under the variable firsts vf
RECURSIVE FirstsOfParts(_, _)
FirstsOfParts(parts, vf) ==
    IF parts = <<>> THEN {Epsilon}
    ELSE LET head == parts[1]
         IN CASE head.s = "Variable" ->
                   IF Epsilon \in vf[head.id]
                   THEN (vf[head.id] \ {Epsilon}) \cup FirstsOfParts(Tail(parts), vf)
                   ELSE vf[head.id]
              [] head.s = "Terminal" -> {Terminal(head.id)}
              [] head.s = "Dollar" -> {Dollar}
              [] OTHER -> FirstsOfParts(Tail(parts), vf)

FirstsStep(raw, vf) ==
    [id \in DOMAIN vf |->
        vf[id] \cup UNION { FirstsOfParts(RawVariable(raw, id).rules[r].parts, vf) :
                            r \in DOMAIN RawVariable(raw, id).rules }]

RECURSIVE FirstsFix(_, _)
FirstsFix(raw, vf) ==
    LET next == FirstsStep(raw, vf)
    IN IF next = vf THEN vf ELSE FirstsFix(raw, next)

VariableFirsts(raw) ==
    FirstsFix(raw, [id \in { raw[k].id : k \in DOMAIN raw } |-> {}])

\* choices[0] is the whole body, choices[k] the suffix after the k-th symbol,
\* and the last choice is the empty one
Choices(parts, vf) ==
    [k \in 1..(Len(parts) + 1) |->
        LET suffix == SubSeq(parts, k, Len(parts))
        IN [parts |-> suffix, firsts |-> FirstsOfParts(suffix, vf)]]

Prepare(raw) ==
    LET vf == VariableFirsts(raw)
    IN [variables |->
          [k \in DOMAIN raw |->
              [id |-> raw[k].id,
               name |-> raw[k].name,
               firsts |-> vf[raw[k].id],
               rules |-> [r \in DOMAIN raw[k].rules |->
                            [context |-> raw[k].rules[r].context,
                             choices |-> Choices(raw[k].rules[r].parts, vf)]]]]]

\* Grammar::get_variable
GetVariable(g, id) ==
    LET found == { k \in DOMAIN g.variables : g.variables[k].id = id }
    IN IF found = {} THEN <<>>
       ELSE <<g.variables[CHOOSE k \in found : \A l \in found : k <= l]>>

\* Grammar::get_variable_for_name
GetVariableForName(g, name) ==
    LET found == { k \in DOMAIN g.variables : g.variables[k].name = name }
    IN IF found = {} THEN <<>>
       ELSE <<g.variables[CHOOSE k \in found : \A l \in found : k <= l]>>

(***************************************************************************)
(* Items                                                                   *)
(***************************************************************************)
RuleRef(variable, index) == [variable |-> variable, index |-> index]

Item(rule, position, lookaheads) ==
    [rule |-> rule, position |-> position, lookaheads |-> lookaheads]

GetRuleIn(g, rule) ==
    LET k == CHOOSE k \in DOMAIN g.variables : g.variables[k].id = rule.variable
    IN g.variables[k].rules[rule.index + 1]

PartsLen(g, item) == Len(GetRuleIn(g, item.rule).choices[1].parts)

GetAction(g, item) ==
    IF item.position >= PartsLen(g, item) THEN "Reduce" ELSE "Shift"

GetNextSymbol(g, item) ==
    IF item.position >= PartsLen(g, item) THEN NoSymbol
    ELSE GetRuleIn(g, item.rule).choices[1].parts[item.position + 1]

GetNextChoice(g, item) ==
    GetRuleIn(g, item.rule).choices[item.position + 2]

\* get_child moving the dot over two symbols
GetChildSkips(item) == Item(item.rule, item.position + 2, item.lookaheads)

GetChild(item) == Item(item.rule, item.position + 1, item.lookaheads)

\* get_opened_context without the test on the position
GetOpenedContextAnywhere(g, item) ==
    IF item.position < PartsLen(g, item) /\ GetRuleIn(g, item.rule).context # 0
    THEN <<GetRuleIn(g, item.rule).context>>
    ELSE <<>>

\* Option<usize> as a sequence of at most one element
GetOpenedContext(g, item) ==
    IF item.position > 0 THEN <<>>
    ELSE IF item.position < PartsLen(g, item) /\ GetRuleIn(g, item.rule).context # 0
         THEN <<GetRuleIn(g, item.rule).context>>
         ELSE <<>>

SameBase(a, b) == a.rule = b.rule /\ a.position = b.position

Contains(seq, x) == \E k \in DOMAIN seq : seq[k] = x

PushIfAbsent(seq, x) == IF Contains(seq, x) THEN seq ELSE Append(seq, x)

\* The LALR1 arm merging into the first item of the same rule, whatever its
\* position
MergeOrPushSameRule(closure, candidate) ==
    LET same == { k \in DOMAIN closure : closure[k].rule = candidate.rule }
    IN IF same = {} THEN Append(closure, candidate)
       ELSE LET k == CHOOSE k \in same : \A l \in same : k <= l
            IN [closure EXCEPT ![k].lookaheads = @ \cup candidate.lookaheads]

\* The LALR1 arm of close_to: merge into the first item of the same base
MergeOrPush(closure, candidate) ==
    LET same == { k \in DOMAIN closure : SameBase(closure[k], candidate) }
    IN IF same = {} THEN Append(closure, candidate)
       ELSE LET k == CHOOSE k \in same : \A l \in same : k <= l
            IN [closure EXCEPT ![k].lookaheads = @ \cup candidate.lookaheads]

RECURSIVE PushSingles(_, _, _)
PushSingles(closure, rule, terminals) ==
    IF terminals = <<>> THEN closure
    ELSE PushSingles(PushIfAbsent(closure, Item(rule, 0, {terminals[1]})),
                     rule, Tail(terminals))

\* The lookaheads given to the items of the next variable
CloseFirsts(g, item) ==
    LET firsts == GetNextChoice(g, item).firsts
    IN IF Epsilon \in firsts
       THEN (firsts \ {Epsilon}) \cup item.lookaheads
       ELSE firsts

RECURSIVE CloseRules(_, _, _, _, _, _)
CloseRules(closure, sid, index, count, firsts, mode) ==
    IF index >= count THEN closure
    ELSE LET candidate == Item(RuleRef(sid, index), 0, firsts)
             next == CASE mode = "LR0" -> PushIfAbsent(closure, candidate)
                       [] mode = "LR1" ->
                            PushSingles(closure, RuleRef(sid, index), TermContent(firsts))
                       [] OTHER -> MergeOrPush(closure, candidate)
         IN CloseRules(next, sid, index + 1, count, firsts, mode)

CloseTo(g, item, closure, mode) ==
    LET next == GetNextSymbol(g, item)
    IN IF next.s = "Variable"
       THEN CloseRules(closure, next.id, 0, Len(GetVariable(g, next.id)[1].rules),
                       CloseFirsts(g, item), mode)
       ELSE closure

(***************************************************************************)
(* Kernels and states                                                      *)
(***************************************************************************)
\* Kernel comparison that looks at the bases of the items only
KernelEqBases(a, b) ==
    Len(a) = Len(b) /\ \A k \in DOMAIN a : \E l \in DOMAIN b : SameBase(a[k], b[l])

KernelEq(a, b) ==
    Len(a) = Len(b) /\ \A k \in DOMAIN a : Contains(b, a[k])

RECURSIVE CloseFrom(_, _, _, _)
CloseFrom(g, items, i, mode) ==
    IF i >= Len(items) THEN items
    ELSE CloseFrom(g, CloseTo(g, items[i + 1], items, mode), i + 1, mode)

NoChildren == [x \in {} |-> 0]
NoContexts == [x \in {} |-> <<>>]

IntoState(g, kernel, mode) ==
    [kernel |-> kernel,
     items |-> CloseFrom(g, kernel, 0, mode),
     children |-> NoChildren,
     opening_contexts |-> NoContexts,
     reductions |-> <<>>]

AddItem(kernel, item) == PushIfAbsent(kernel, item)

(***************************************************************************)
(* Graph construction                                                      *)
(***************************************************************************)
\* Option<usize>: position of the first state whose kernel equals the kernel
GetStateFor(sts, kernel) ==
    LET found == { k \in DOMAIN sts : KernelEq(sts[k].kernel, kernel) }
    IN IF found = {} THEN <<>>
       ELSE <<(CHOOSE k \in found : \A l \in found : k <= l) - 1>>

\* HashMap::insert
Insert(map, key, value) ==
    [x \in (DOMAIN map) \cup {key} |-> IF x = key THEN value ELSE map[x]]

RECURSIVE ShiftKernel(_, _, _)
ShiftKernel(g, items, sym) ==
    IF items = <<>> THEN <<>>
    ELSE LET n == Len(items)
             init == ShiftKernel(g, SubSeq(items, 1, n - 1), sym)
         IN IF GetNextSymbol(g, items[n]) = sym
            THEN AddItem(init, GetChild(items[n]))
            ELSE init

\* The shifts map of build_at_state: next symbol -> kernel of the children
Shifts(g, items) ==
    [sym \in { GetNextSymbol(g, items[k]) : k \in DOMAIN items } \ {NoSymbol} |->
        ShiftKernel(g, items, sym)]

RECURSIVE Perms(_)
Perms(set) ==
    IF set = {} THEN {<<>>}
    ELSE UNION { { <<x>> \o p : p \in Perms(set \ {x}) } : x \in set }

\* add_state reading the length after the push
AddStateIndexAfterPush(sts) == Len(sts) + 1

\* The index Graph::add_state returns for a state pushed onto sts
AddStateIndex(sts) == Len(sts)

\* "Close the children and add them to the graph", the shifts map being
\* enumerated in the given order
RECURSIVE LinkChildren(_, _, _, _, _, _)
LinkChildren(g, sts, state_id, shifts, order, mode) ==
    IF order = <<>> THEN sts
    ELSE LET next == order[1]
             kernel == shifts[next]
             found == GetStateFor(sts, kernel)
             child_index == IF found # <<>> THEN found[1] ELSE AddStateIndex(sts)
             added == IF found # <<>> THEN sts
                      ELSE Append(sts, IntoState(g, kernel, mode))
             linked == [added EXCEPT ![state_id + 1].children =
                                        Insert(@, next, child_index)]
         IN LinkChildren(g, linked, state_id, shifts, Tail(order), mode)

\* The terminals on which an item at the start of a rule opens its context
OpeningTerminals(g, item) ==
    LET next == GetNextSymbol(g, item)
    IN CASE next.s = "Virtual" -> GetVariable(g, next.id)[1].firsts
         [] next.s = "Epsilon" -> {Epsilon}
         [] next.s = "Dollar" -> {Dollar}
         [] next.s = "Dummy" -> {Dummy}
         [] next.s = "NullTerminal" -> {NullTerminal}
         [] next.s = "Terminal" -> {Terminal(next.id)}
         [] OTHER -> {}

RECURSIVE AddContexts(_, _, _)
AddContexts(map, terminals, context) ==
    IF terminals = <<>> THEN map
    ELSE LET t == terminals[1]
             contexts == IF t \in DOMAIN map THEN map[t] ELSE <<>>
         IN AddContexts(Insert(map, t, PushIfAbsent(contexts, context)),
                        Tail(terminals), context)

RECURSIVE ContextData(_, _, _)
ContextData(g, items, map) ==
    IF items = <<>> THEN map
    ELSE LET opened == GetOpenedContext(g, items[1])
             next == IF opened = <<>> THEN map
                     ELSE AddContexts(map, TermContent(OpeningTerminals(g, items[1])),
                                      opened[1])
         IN ContextData(g, Tail(items), next)

BuildAtState(g, sts, state_id, mode, order) ==
    LET linked == LinkChildren(g, sts, state_id, Shifts(g, sts[state_id + 1].items),
                               order, mode)
    IN [linked EXCEPT ![state_id + 1].opening_contexts =
                         ContextData(g, linked[state_id + 1].items, @)]

\* The item and state that get_graph_lr0 and get_graph_lr1 start from
AxiomItem(g) ==
    Item(RuleRef(GetVariableForName(g, GENERATED_AXIOM)[1].id, 0), 0, {})

State0(g, mode) == IntoState(g, <<AxiomItem(g)>>, mode)

(***************************************************************************)
(* Conflicts                                                               *)
(***************************************************************************)
Conflict(state, kind, items, lookahead) ==
    [state |-> state, kind |-> kind, items |-> items, lookahead |-> lookahead]

\* The search for a previous conflict that finds none
PreviousConflictNone(cs, kind, lookahead) == <<>>

\* The search for a previous conflict looking at the lookahead only
PreviousConflictAnyKind(cs, kind, lookahead) ==
    LET found == { k \in DOMAIN cs : cs[k].lookahead = lookahead }
    IN IF found = {} THEN <<>>
       ELSE <<CHOOSE k \in found : \A l \in found : k <= l>>

\* Index of the first conflict of the kind on the lookahead, as an Option
PreviousConflict(cs, kind, lookahead) ==
    LET found == { k \in DOMAIN cs : cs[k].kind = kind /\ cs[k].lookahead = lookahead }
    IN IF found = {} THEN <<>>
       ELSE <<CHOOSE k \in found : \A l \in found : k <= l>>

RECURSIVE ItemsShiftingOn(_, _, _)
ItemsShiftingOn(g, items, sym) ==
    IF items = <<>> THEN <<>>
    ELSE (IF GetNextSymbol(g, items[1]) = sym THEN <<items[1]>> ELSE <<>>)
         \o ItemsShiftingOn(g, Tail(items), sym)

RaiseShiftReduce(cs, state, state_id, g, reducing, lookahead) ==
    LET previous == PreviousConflict(cs, "ShiftReduce", lookahead)
    IN IF previous # <<>>
       THEN [cs EXCEPT ![previous[1]].items = Append(@, reducing)]
       ELSE Append(cs, Conflict(state_id, "ShiftReduce",
                                Append(ItemsShiftingOn(g, state.items, TermToSym(lookahead)),
                                       reducing),
                                lookahead))

RaiseReduceReduce(cs, state_id, previous_item, reducing, lookahead) ==
    LET previous == PreviousConflict(cs, "ReduceReduce", lookahead)
    IN IF previous # <<>>
       THEN [cs EXCEPT ![previous[1]].items = Append(@, reducing)]
       ELSE Append(cs, Conflict(state_id, "ReduceReduce", <<previous_item, reducing>>,
                                lookahead))

\* aggregate keeping the conflicts of the last state only
AggregateLast(cs, other) == other

Aggregate(cs, other) == cs \o other

(***************************************************************************)
(* Reductions of one state                                                 *)
(***************************************************************************)
Reduction(lookahead, rule, length) ==
    [lookahead |-> lookahead, rule |-> rule, length |-> length]

RECURSIVE Lr0Items(_, _, _, _, _)
Lr0Items(acc, state, id, g, index) ==
    IF index >= Len(state.items) THEN acc
    ELSE LET item == state.items[index + 1]
             shifted == IF state.children # NoChildren
                        THEN RaiseShiftReduce(acc.conflicts, state, id, g, item, NullTerminal)
                        ELSE acc.conflicts
             next == IF GetAction(g, item) # "Reduce" THEN acc
                     ELSE IF acc.reduce_index # <<>>
                          THEN [acc EXCEPT !.conflicts =
                                   RaiseReduceReduce(shifted, id,
                                       state.items[acc.reduce_index[1] + 1], item,
                                       NullTerminal)]
                          ELSE [conflicts |-> shifted,
                                reduce_index |-> <<index>>,
                                reductions |-> Append(acc.reductions,
                                    Reduction(NullTerminal, item.rule, item.position))]
         IN Lr0Items(next, state, id, g, index + 1)

StateBuildReductionsLr0(state, id, g) ==
    LET acc == Lr0Items([conflicts |-> <<>>, reduce_index |-> <<>>,
                         reductions |-> state.reductions], state, id, g, 0)
    IN [reductions |-> acc.reductions, conflicts |-> acc.conflicts]

\* The loop body recording the reduction of the later item as well as the
\* reduce/reduce conflict
ReduceStepKeepsBoth(acc, state, id, g, index, lookahead) ==
    LET item == state.items[index + 1]
    IN IF TermToSym(lookahead) \in DOMAIN state.children
       THEN [acc EXCEPT !.conflicts = RaiseShiftReduce(@, state, id, g, item, lookahead)]
       ELSE IF lookahead \in DOMAIN acc.map
            THEN [acc EXCEPT !.conflicts =
                     RaiseReduceReduce(@, id, state.items[acc.map[lookahead] + 1], item,
                                       lookahead),
                             !.reductions = Append(@,
                                 Reduction(lookahead, item.rule, item.position))]
            ELSE [acc EXCEPT !.map = Insert(@, lookahead, index),
                             !.reductions = Append(@,
                                 Reduction(lookahead, item.rule, item.position))]

\* The body run for one lookahead of an item that may reduce
ReduceStep(acc, state, id, g, index, lookahead) ==
    LET item == state.items[index + 1]
    IN IF TermToSym(lookahead) \in DOMAIN state.children
       THEN [acc EXCEPT !.conflicts = RaiseShiftReduce(@, state, id, g, item, lookahead)]
       ELSE IF lookahead \in DOMAIN acc.map
            THEN [acc EXCEPT !.conflicts =
                     RaiseReduceReduce(@, id, state.items[acc.map[lookahead] + 1], item,
                                       lookahead)]
            ELSE [acc EXCEPT !.map = Insert(@, lookahead, index),
                             !.reductions = Append(@,
                                 Reduction(lookahead, item.rule, item.position))]

RECURSIVE ReduceOn(_, _, _, _, _, _)
ReduceOn(acc, state, id, g, index, lookaheads) ==
    IF lookaheads = <<>> THEN acc
    ELSE ReduceOn(ReduceStep(acc, state, id, g, index, lookaheads[1]),
                  state, id, g, index, Tail(lookaheads))

RECURSIVE Lr1Items(_, _, _, _, _)
Lr1Items(acc, state, id, g, index) ==
    IF index >= Len(state.items) THEN acc
    ELSE LET item == state.items[index + 1]
             next == IF GetAction(g, item) # "Reduce" THEN acc
                     ELSE ReduceOn(acc, state, id, g, index, TermContent(item.lookaheads))
         IN Lr1Items(next, state, id, g, index + 1)

StateBuildReductionsLr1(state, id, g) ==
    LET acc == Lr1Items([conflicts |-> <<>>, map |-> [x \in {} |-> 0],
                         reductions |-> state.reductions], state, id, g, 0)
    IN [reductions |-> acc.reductions, conflicts |-> acc.conflicts]

\* The test reading the choice after the next symbol instead of the one at the dot
RnglrSkipsNextChoice(g, item) ==
    /\ GetAction(g, item) = "Shift"
    /\ Epsilon \notin GetNextChoice(g, item).firsts

\* The test of build_reductions_rnglr1 that passes over an item
RnglrSkips(g, item) ==
    /\ GetAction(g, item) = "Shift"
    /\ Epsilon \notin GetRuleIn(g, item.rule).choices[item.position + 1].firsts

RECURSIVE Rnglr1Items(_, _, _, _, _)
Rnglr1Items(acc, state, id, g, index) ==
    IF index >= Len(state.items) THEN acc
    ELSE LET item == state.items[index + 1]
             next == IF RnglrSkips(g, item) THEN acc
                     ELSE ReduceOn(acc, state, id, g, index, TermContent(item.lookaheads))
         IN Rnglr1Items(next, state, id, g, index + 1)

StateBuildReductionsRnglr1(state, id, g) ==
    LET acc == Rnglr1Items([conflicts |-> <<>>, map |-> [x \in {} |-> 0],
                            reductions |-> state.reductions], state, id, g, 0)
    IN [reductions |-> acc.reductions, conflicts |-> acc.conflicts]

(***************************************************************************)
(* The LALR(1) pipeline                                                    *)
(***************************************************************************)
BuildGraphLalr1Kernels(g0) ==
    [k \in DOMAIN g0 |->
        [j \in DOMAIN g0[k].kernel |->
            Item(g0[k].kernel[j].rule, g0[k].kernel[j].position,
                 IF k = 1 THEN {Epsilon} ELSE {})]]

Propagation(from_state, from_item, to_state, to_item) ==
    [from_state |-> from_state, from_item |-> from_item,
     to_state |-> to_state, to_item |-> to_item]

\* graph0.states[i].children.get(&next_symbol)
ChildState(g0, i, next_symbol) ==
    IF next_symbol \in DOMAIN g0[i + 1].children
    THEN <<g0[i + 1].children[next_symbol]>>
    ELSE <<>>

\* The position of the child looked up by equality of the items
ChildItemExact(kernel, dummy_child) ==
    LET found == { k \in DOMAIN kernel : kernel[k] = dummy_child }
    IN IF found = {} THEN <<>>
       ELSE <<(CHOOSE k \in found : \A l \in found : k <= l) - 1>>

\* kernels[child_state].items.iter().position(same_base)
ChildItem(kernel, dummy_child) ==
    LET found == { k \in DOMAIN kernel : SameBase(kernel[k], dummy_child) }
    IN IF found = {} THEN <<>>
       ELSE <<(CHOOSE k \in found : \A l \in found : k <= l) - 1>>

DummyState(g, item) ==
    IntoState(g, <<Item(item.rule, item.position, {Dummy})>>, "LALR1")

RECURSIVE TableDummyItems(_, _, _, _, _, _)
TableDummyItems(acc, g0, g, i, item_id, dummy_items) ==
    IF dummy_items = <<>> THEN acc
    ELSE LET dummy_item == dummy_items[1]
             next_symbol == GetNextSymbol(g, dummy_item)
             dummy_child == GetChild(dummy_item)
             child_state == ChildState(g0, i, next_symbol)[1]
             child_item == ChildItem(acc.kernels[child_state + 1], dummy_child)[1]
             next == IF next_symbol = NoSymbol THEN acc
                     ELSE IF Dummy \in dummy_item.lookaheads
                          THEN [acc EXCEPT !.propagation = Append(@,
                                   Propagation(i, item_id, child_state, child_item))]
                          ELSE [acc EXCEPT
                                   !.kernels[child_state + 1][child_item + 1].lookaheads =
                                       @ \cup dummy_item.lookaheads]
         IN TableDummyItems(next, g0, g, i, item_id, Tail(dummy_items))

RECURSIVE TableKernelItems(_, _, _, _, _)
TableKernelItems(acc, g0, g, i, item_id) ==
    IF item_id >= Len(acc.kernels[i + 1]) THEN acc
    ELSE LET item == acc.kernels[i + 1][item_id + 1]
             next == IF GetAction(g, item) = "Reduce" THEN acc
                     ELSE TableDummyItems(acc, g0, g, i, item_id, DummyState(g, item).items)
         IN TableKernelItems(next, g0, g, i, item_id + 1)

RECURSIVE TableKernels(_, _, _, _)
TableKernels(acc, g0, g, i) ==
    IF i >= Len(acc.kernels) THEN acc
    ELSE TableKernels(TableKernelItems(acc, g0, g, i, 0), g0, g, i + 1)

BuildGraphLalr1PropagationTable(g0, g, ks) ==
    TableKernels([kernels |-> ks, propagation |-> <<>>], g0, g, 0)

\* The pass giving the destination the lookaheads of the source in place of
\* its own
RECURSIVE PropagatePassReplaces(_, _)
PropagatePassReplaces(acc, table) ==
    IF table = <<>> THEN acc
    ELSE LET p == table[1]
             before == Cardinality(acc.kernels[p.to_state + 1][p.to_item + 1].lookaheads)
             others == acc.kernels[p.from_state + 1][p.from_item + 1].lookaheads
             ks == [acc.kernels EXCEPT ![p.to_state + 1][p.to_item + 1].lookaheads =
                                          others]
             after == Cardinality(ks[p.to_state + 1][p.to_item + 1].lookaheads)
         IN PropagatePassReplaces([kernels |-> ks,
                                   modifications |-> acc.modifications + (after - before)],
                                  Tail(table))

\* The pass counting the sizes of the destinations instead of what it inserts
RECURSIVE PropagatePassCountsSizes(_, _)
PropagatePassCountsSizes(acc, table) ==
    IF table = <<>> THEN acc
    ELSE LET p == table[1]
             others == acc.kernels[p.from_state + 1][p.from_item + 1].lookaheads
             ks == [acc.kernels EXCEPT ![p.to_state + 1][p.to_item + 1].lookaheads =
                                          @ \cup others]
             after == Cardinality(ks[p.to_state + 1][p.to_item + 1].lookaheads)
         IN PropagatePassCountsSizes([kernels |-> ks,
                                      modifications |-> acc.modifications + after],
                                     Tail(table))

\* One pass of the while loop of build_graph_lalr1_propagate over the table
RECURSIVE PropagatePass(_, _)
PropagatePass(acc, table) ==
    IF table = <<>> THEN acc
    ELSE LET p == table[1]
             before == Cardinality(acc.kernels[p.to_state + 1][p.to_item + 1].lookaheads)
             others == acc.kernels[p.from_state + 1][p.from_item + 1].lookaheads
             ks == [acc.kernels EXCEPT ![p.to_state + 1][p.to_item + 1].lookaheads =
                                          @ \cup others]
             after == Cardinality(ks[p.to_state + 1][p.to_item + 1].lookaheads)
         IN PropagatePass([kernels |-> ks,
                           modifications |-> acc.modifications + (after - before)],
                          Tail(table))

\* build_graph_lalr1_graph copying the children only
BuildGraphLalr1GraphChildrenOnly(ks, g0, g) ==
    [k \in DOMAIN ks |->
        [IntoState(g, ks[k], "LALR1") EXCEPT !.children = g0[k].children]]

BuildGraphLalr1Graph(ks, g0, g) ==
    [k \in DOMAIN ks |->
        [IntoState(g, ks[k], "LALR1") EXCEPT
            !.children = g0[k].children,
            !.opening_contexts = g0[k].opening_contexts]]

(***************************************************************************)
(* build_graph, as a sequence of steps                                     *)
(***************************************************************************)
Methods == {"LR0", "LR1", "LALR1", "RNGLR1", "RNGLALR1"}

\* The lookahead mode of the graph a method starts from
GraphMode(m) == IF m \in {"LR1", "RNGLR1"} THEN "LR1" ELSE "LR0"

UsesLalr1(m) == m \in {"LALR1", "RNGLALR1"}

(***************************************************************************)
(* The grammars the builder is run on. Every grammar ends with the         *)
(* generated axiom, whose single rule is  axiom -> start $.                *)
(***************************************************************************)
Axiom(start) == V(20, GENERATED_AXIOM, <<R(<<SymVariable(start), SymDollar>>, 0)>>)

Grammars ==
    LET S == SymVariable(10)
        A == SymVariable(11)
        B == SymVariable(12)
        a == SymTerminal(3)
        b == SymTerminal(4)
        c == SymTerminal(5)
        d == SymTerminal(6)
        e == SymTerminal(7)
    IN <<
        \* S -> a
        <<V(10, "S", <<R(<<a>>, 0)>>), Axiom(10)>>,
        \* A -> B | A b ; B -> c
        <<V(11, "A", <<R(<<B>>, 0), R(<<A, b>>, 0)>>),
          V(12, "B", <<R(<<c>>, 0)>>), Axiom(11)>>,
        \* S -> a A | a ; A -> (empty)
        <<V(10, "S", <<R(<<a, A>>, 0), R(<<a>>, 0)>>),
          V(11, "A", <<R(<<>>, 0)>>), Axiom(10)>>,
        \* S -> a S | a S e S | b
        <<V(10, "S", <<R(<<a, S>>, 0), R(<<a, S, e, S>>, 0), R(<<b>>, 0)>>), Axiom(10)>>,
        \* S -> a A d | b B d | a B e | b A e ; A -> c ; B -> c
        <<V(10, "S", <<R(<<a, A, d>>, 0), R(<<b, B, d>>, 0),
                       R(<<a, B, e>>, 0), R(<<b, A, e>>, 0)>>),
          V(11, "A", <<R(<<c>>, 0)>>),
          V(12, "B", <<R(<<c>>, 0)>>), Axiom(10)>>,
        \* S -> a A | A | B ; A -> b | b c | c ; B -> b, with contexts
        <<V(10, "S", <<R(<<a, A>>, 0), R(<<A>>, 1), R(<<B>>, 0)>>),
          V(11, "A", <<R(<<b>>, 1), R(<<b, c>>, 1), R(<<c>>, 2)>>),
          V(12, "B", <<R(<<b>>, 2)>>), Axiom(10)>>,
        \* S -> A d | B d ; A -> c | c d ; B -> c
        <<V(10, "S", <<R(<<A, d>>, 0), R(<<B, d>>, 0)>>),
          V(11, "A", <<R(<<c>>, 0), R(<<c, d>>, 0)>>),
          V(12, "B", <<R(<<c>>, 0)>>), Axiom(10)>>,
        \* S -> A B ; A -> (empty) | a ; B -> (empty) | b
        <<V(10, "S", <<R(<<A, B>>, 0)>>),
          V(11, "A", <<R(<<>>, 0), R(<<a>>, 0)>>),
          V(12, "B", <<R(<<>>, 0), R(<<b>>, 2)>>), Axiom(10)>>,
        \* S -> a A a | a A b | b A b | b A S ; A -> c
        <<V(10, "S", <<R(<<a, A, a>>, 0), R(<<a, A, b>>, 0),
                       R(<<b, A, b>>, 0), R(<<b, A, S>>, 0)>>),
          V(11, "A", <<R(<<c>>, 0)>>), Axiom(10)>>,
        \* S -> ^A b | A ; A -> c | d, the virtual symbol ^A carrying the id of A
        <<V(10, "S", <<R(<<SymVirtual(11), b>>, 1), R(<<A>>, 0)>>),
          V(11, "A", <<R(<<c>>, 2), R(<<d>>, 0)>>), Axiom(10)>>,
        \* S -> A A ; A -> a A | b
        <<V(10, "S", <<R(<<A, A>>, 0)>>),
          V(11, "A", <<R(<<a, A>>, 0), R(<<b>>, 0)>>), Axiom(10)>>
    >>

\* The number of grammars of the list that build_graph is run on
NumGrammars == 10

(***************************************************************************)
(* build_graph, one step at a time                                         *)
(***************************************************************************)
NoOutput == [method |-> "none", states |-> <<>>, conflicts |-> <<>>]

\* What build_graph returns, the graph and the conflicts, with the method asked
Output == [method |-> method, states |-> states, conflicts |-> conflicts]

Init ==
    /\ grammar \in { Prepare(Grammars[k]) : k \in 1..NumGrammars }
    /\ method \in Methods
    /\ pc = "start"
    /\ states = <<>>
    /\ idx = 0
    /\ graph0 = <<>>
    /\ kernels = <<>>
    /\ propagation = <<>>
    /\ conflicts = <<>>
    /\ prev = NoOutput

\* get_graph_lr0 / get_graph_lr1 up to the call of Graph::from
GetGraph ==
    /\ pc = "start"
    /\ states' = <<State0(grammar, GraphMode(method))>>
    /\ idx' = 0
    /\ pc' = "graph"
    /\ UNCHANGED <<grammar, method, graph0, kernels, propagation, conflicts, prev>>

\* One iteration of the loop of Graph::from; the graph is handed on when the
\* loop ends
GraphFromStep ==
    /\ pc = "graph"
    /\ idx < Len(states)
    /\ \E order \in Perms(DOMAIN Shifts(grammar, states[idx + 1].items)) :
          LET built == BuildAtState(grammar, states, idx, GraphMode(method), order)
          IN IF idx + 1 < Len(built)
             THEN /\ states' = built
                  /\ idx' = idx + 1
                  /\ UNCHANGED <<pc, graph0>>
             ELSE IF UsesLalr1(method)
                  THEN /\ graph0' = built
                       /\ states' = <<>>
                       /\ idx' = 0
                       /\ pc' = "kernels"
                  ELSE /\ states' = built
                       /\ idx' = 0
                       /\ pc' = "reductions"
                       /\ UNCHANGED graph0
    /\ UNCHANGED <<grammar, method, kernels, propagation, conflicts, prev>>

Lalr1Kernels ==
    /\ pc = "kernels"
    /\ kernels' = BuildGraphLalr1Kernels(graph0)
    /\ pc' = "table"
    /\ UNCHANGED <<grammar, method, states, idx, graph0, propagation, conflicts, prev>>

Lalr1PropagationTable ==
    /\ pc = "table"
    /\ LET table == BuildGraphLalr1PropagationTable(graph0, grammar, kernels)
       IN /\ kernels' = table.kernels
          /\ propagation' = table.propagation
    /\ pc' = "propagate"
    /\ UNCHANGED <<grammar, method, states, idx, graph0, conflicts, prev>>

\* One pass of build_graph_lalr1_propagate; the loop ends on a pass without
\* modification
Lalr1Propagate ==
    /\ pc = "propagate"
    /\ LET pass == PropagatePass([kernels |-> kernels, modifications |-> 0], propagation)
       IN /\ kernels' = pass.kernels
          /\ pc' = IF pass.modifications # 0 THEN "propagate" ELSE "link"
    /\ UNCHANGED <<grammar, method, states, idx, graph0, propagation, conflicts, prev>>

Lalr1Graph ==
    /\ pc = "link"
    /\ states' = BuildGraphLalr1Graph(kernels, graph0, grammar)
    /\ idx' = 0
    /\ pc' = "reductions"
    /\ UNCHANGED <<grammar, method, graph0, kernels, propagation, conflicts, prev>>

\* The state builder that the method's Graph::build_reductions_* calls
StateBuildReductions(m, state, id, g) ==
    CASE m = "LR0" -> StateBuildReductionsLr0(state, id, g)
      [] m \in {"LR1", "LALR1"} -> StateBuildReductionsLr1(state, id, g)
      [] OTHER -> StateBuildReductionsRnglr1(state, id, g)

\* One iteration of the loop of Graph::build_reductions_*
BuildReductionsStep ==
    /\ pc = "reductions"
    /\ idx < Len(states)
    /\ LET built == StateBuildReductions(method, states[idx + 1], idx, grammar)
       IN /\ states' = [states EXCEPT ![idx + 1].reductions = built.reductions]
          /\ conflicts' = Aggregate(conflicts, built.conflicts)
    /\ idx' = idx + 1
    /\ pc' = IF idx + 1 < Len(states) THEN "reductions" ELSE "done"
    /\ UNCHANGED <<grammar, method, graph0, kernels, propagation, prev>>

Next ==
    \/ GetGraph
    \/ GraphFromStep
    \/ Lalr1Kernels
    \/ Lalr1PropagationTable
    \/ Lalr1Propagate
    \/ Lalr1Graph
    \/ BuildReductionsStep

Spec == Init /\ [][Next]_vars

\* A second call of build_graph on the same grammar, the first output being
\* kept for comparison
RunAgain ==
    /\ pc = "done"
    /\ prev = NoOutput
    /\ prev' = Output
    /\ method' \in Methods
    /\ pc' = "start"
    /\ states' = <<>>
    /\ idx' = 0
    /\ graph0' = <<>>
    /\ kernels' = <<>>
    /\ propagation' = <<>>
    /\ conflicts' = <<>>
    /\ UNCHANGED grammar

\* The number of grammars of the list that build_graph is run on twice
NumRerunGrammars == 3

InitTwice ==
    /\ Init
    /\ grammar \in { Prepare(Grammars[k]) : k \in 1..NumRerunGrammars }

NextTwice ==
    \/ GetGraph
    \/ GraphFromStep
    \/ Lalr1Kernels
    \/ Lalr1PropagationTable
    \/ Lalr1Propagate
    \/ Lalr1Graph
    \/ BuildReductionsStep
    \/ RunAgain

SpecTwice == InitTwice /\ [][NextTwice]_vars

\* A caller holding the graph and the conflicts that build_graph returned
\* raises one more shift/reduce conflict, for an item of a state of the
\* graph; idx keeps the state_id it passes and prev what build_graph returned
RaiseShiftReduceCall ==
    /\ pc = "done"
    /\ \E state_id \in 0..(Len(states) - 1) :
          \E i \in DOMAIN states[state_id + 1].items :
             \E lookahead \in states[state_id + 1].items[i].lookaheads \cup {NullTerminal} :
                /\ conflicts' = RaiseShiftReduce(conflicts, states[state_id + 1], state_id,
                                                 grammar, states[state_id + 1].items[i],
                                                 lookahead)
                /\ idx' = state_id
    /\ prev' = Output
    /\ pc' = "raised"
    /\ UNCHANGED <<grammar, method, states, graph0, kernels, propagation>>

\* The same caller raising a reduce/reduce conflict between two items
RaiseReduceReduceCall ==
    /\ pc = "done"
    /\ \E state_id \in 0..(Len(states) - 1) :
          \E i, j \in DOMAIN states[state_id + 1].items :
             \E lookahead \in states[state_id + 1].items[i].lookaheads \cup {NullTerminal} :
                /\ conflicts' = RaiseReduceReduce(conflicts, state_id,
                                                  states[state_id + 1].items[j],
                                                  states[state_id + 1].items[i], lookahead)
                /\ idx' = state_id
    /\ prev' = Output
    /\ pc' = "raised"
    /\ UNCHANGED <<grammar, method, states, graph0, kernels, propagation>>

NextRaise ==
    \/ GetGraph
    \/ GraphFromStep
    \/ Lalr1Kernels
    \/ Lalr1PropagationTable
    \/ Lalr1Propagate
    \/ Lalr1Graph
    \/ BuildReductionsStep
    \/ RaiseShiftReduceCall
    \/ RaiseReduceReduceCall

SpecRaise == InitTwice /\ [][NextRaise]_vars

\* The longest item vector that the caller below puts in a kernel
MaxKernelLen == 2

\* The item vectors of length 1..MaxKernelLen over the given items, an item
\* possibly taken several times (StateKernel.items is a public Vec<Item>)
KernelsOver(items) ==
    UNION { [1..n -> items] : n \in 1..MaxKernelLen }

\* A caller holding the graph that build_graph returned compares two kernels
\* made of the kernel items of one of its states (k1 == k2); kernels keeps
\* the two operands, idx the result (1 for true) and prev what build_graph
\* returned
KernelEqCall ==
    /\ pc = "done"
    /\ \E state_id \in 0..(Len(states) - 1) :
          LET kernel == states[state_id + 1].kernel
          IN \E k1, k2 \in KernelsOver({ kernel[k] : k \in DOMAIN kernel }) :
                /\ kernels' = <<k1, k2>>
                /\ idx' = IF KernelEq(k1, k2) THEN 1 ELSE 0
    /\ prev' = Output
    /\ pc' = "compared"
    /\ UNCHANGED <<grammar, method, states, graph0, propagation, conflicts>>

NextKernelEq ==
    \/ GetGraph
    \/ GraphFromStep
    \/ Lalr1Kernels
    \/ Lalr1PropagationTable
    \/ Lalr1Propagate
    \/ Lalr1Graph
    \/ BuildReductionsStep
    \/ KernelEqCall

SpecKernelEq == InitTwice /\ [][NextKernelEq]_vars

\* The program has a step to take that changes its state: the loops have
\* an iteration left, the propagation pass inserts a terminal or ends the loop
CanStep ==
    CASE pc \in {"graph", "reductions"} -> idx < Len(states)
      [] pc = "propagate" ->
            LET pass == PropagatePass([kernels |-> kernels, modifications |-> 0],
                                      propagation)
            IN pass.modifications = 0 \/ pass.kernels # kernels
      [] pc = "done" -> FALSE
      [] OTHER -> TRUE

\* build_graph is a sequential program: it takes its next step whenever it
\* has one. This is WF_vars(Next) written out, []<>~ENABLED <<Next>>_vars \/
\* []<><<Next>>_vars, with CanStep for ENABLED <<Next>>_vars and, every step
\* being a step of Next, <<TRUE>>_vars for <<Next>>_vars.
SpecFair == Spec /\ ([]<>(~CanStep) \/ []<><<TRUE>>_vars)

(***************************************************************************)
(* Properties                                                              *)
(***************************************************************************)
Range(seq) == { seq[k] : k \in DOMAIN seq }

Bases(items) == { <<items[k].rule, items[k].position>> : k \in DOMAIN items }

\* The children of the items that shift on sym
ChildrenOn(items, sym) ==
    { GetChild(items[k]) : k \in { l \in DOMAIN items : GetNextSymbol(grammar, items[l]) = sym } }

\* The indices of the reducing items of a state that carry the terminal
ReducersOn(state, t) ==
    { k \in DOMAIN state.items :
        GetAction(grammar, state.items[k]) = "Reduce" /\ t \in state.items[k].lookaheads }

Reported(id, kind, t) ==
    \E k \in DOMAIN conflicts :
        conflicts[k].state = id /\ conflicts[k].kind = kind /\ conflicts[k].lookahead = t

\* C1: two runs of build_graph on the same grammar with the same method give
\* the same states at the same indices, the same reductions and the same
\* conflicts, whatever the order in which the shifts maps were enumerated.
Determinism ==
    (pc = "done" /\ prev.method = method) => Output = prev

\* C2: in the graph returned by build_graph, under every method, no two
\* states at distinct indices have equal kernels.
KernelUniqueness ==
    pc = "done" =>
        \A i, j \in DOMAIN states :
            i # j => ~KernelEq(states[i].kernel, states[j].kernel)

\* C3: at every step of the construction and in the returned graph, every
\* value of a children map is an index of the state list.
ChildrenAreIndices ==
    /\ \A k \in DOMAIN states : \A sym \in DOMAIN states[k].children :
          states[k].children[sym] \in 0..(Len(states) - 1)
    /\ \A k \in DOMAIN graph0 : \A sym \in DOMAIN graph0[k].children :
          graph0[k].children[sym] \in 0..(Len(graph0) - 1)

ChildrenAreIndicesWitness ==
    /\ pc = "graph"
    /\ idx > 0
    /\ \E k \in DOMAIN states : \E sym \in DOMAIN states[k].children :
          states[k].children[sym] = Len(states) - 1

StatesMode ==
    IF UsesLalr1(method) /\ pc # "graph" THEN "LALR1" ELSE GraphMode(method)

\* C5: closing any item of a state once more adds no item to the state and,
\* in LALR1 mode, no terminal to the lookaheads of an item of the state.
ClosureIsFixpoint ==
    /\ \A k \in DOMAIN states : \A i \in DOMAIN states[k].items :
          CloseTo(grammar, states[k].items[i], states[k].items, StatesMode) =
              states[k].items
    /\ \A k \in DOMAIN graph0 : \A i \in DOMAIN graph0[k].items :
          CloseTo(grammar, graph0[k].items[i], graph0[k].items, "LR0") =
              graph0[k].items

\* C6 as stated: under LR1 and LALR1, for every reducing item of a state and
\* every terminal t it carries, either the state shifts on t, a ShiftReduce
\* conflict on t is reported for the state and no reduction on t is
\* recorded, or exactly one reduction of the state is on t, with the rule of
\* a reducing item carrying t; and whenever two or more reducing items carry
\* t, a ReduceReduce conflict on t is reported for the state.
ReductionCoverage ==
    (pc = "done" /\ method \in {"LR1", "LALR1"}) =>
        \A k \in DOMAIN states :
            \A t \in UNION { states[k].items[i].lookaheads : i \in DOMAIN states[k].items } :
                ReducersOn(states[k], t) # {} =>
                    LET on == { r \in DOMAIN states[k].reductions :
                                  states[k].reductions[r].lookahead = t }
                    IN /\ IF TermToSym(t) \in DOMAIN states[k].children
                          THEN Reported(k - 1, "ShiftReduce", t) /\ on = {}
                          ELSE /\ Cardinality(on) = 1
                               /\ \A r \in on : \E i \in ReducersOn(states[k], t) :
                                     states[k].items[i].rule = states[k].reductions[r].rule
                       /\ Cardinality(ReducersOn(states[k], t)) >= 2 =>
                             Reported(k - 1, "ReduceReduce", t)

\* C6 amended: the same, the ReduceReduce conflict being reported whenever
\* two or more reducing items carry t and the state has no transition on t.
ReductionCoverageAmended ==
    (pc = "done" /\ method \in {"LR1", "LALR1"}) =>
        \A k \in DOMAIN states :
            \A t \in UNION { states[k].items[i].lookaheads : i \in DOMAIN states[k].items } :
                ReducersOn(states[k], t) # {} =>
                    LET on == { r \in DOMAIN states[k].reductions :
                                  states[k].reductions[r].lookahead = t }
                    IN IF TermToSym(t) \in DOMAIN states[k].children
                       THEN Reported(k - 1, "ShiftReduce", t) /\ on = {}
                       ELSE /\ Cardinality(on) = 1
                            /\ \A r \in on : \E i \in ReducersOn(states[k], t) :
                                  states[k].items[i].rule = states[k].reductions[r].rule
                            /\ Cardinality(ReducersOn(states[k], t)) >= 2 =>
                                  Reported(k - 1, "ReduceReduce", t)

ReductionCoverageWitness ==
    /\ pc = "done"
    /\ method \in {"LR1", "LALR1"}
    /\ \E k \in DOMAIN states : \E i \in DOMAIN states[k].items :
          \E t \in states[k].items[i].lookaheads :
              /\ Cardinality(ReducersOn(states[k], t)) >= 2
              /\ TermToSym(t) \notin DOMAIN states[k].children
              /\ Reported(k - 1, "ReduceReduce", t)

\* The lookaheads that the LR(1) states with the same kernel bases give to
\* the kernel item of the base of the item
Lr1Lookaheads(lr1, kernel, item) ==
    UNION { lr1[k].kernel[j].lookaheads :
              <<k, j>> \in { <<k, j>> \in (DOMAIN lr1) \X (1..Len(kernel) + 1) :
                               /\ Bases(lr1[k].kernel) = Bases(kernel)
                               /\ j \in DOMAIN lr1[k].kernel
                               /\ SameBase(lr1[k].kernel[j], item) } }

\* C7: for a grammar built with LALR1 and with LR1, every kernel item of
\* every LALR(1) state has as lookaheads the union of the lookaheads of the
\* same kernel item over the LR(1) states with the same kernel bases.
LalrAgreesWithLr1 ==
    (pc = "done" /\ prev.method = "LALR1" /\ method = "LR1") =>
        \A k \in DOMAIN prev.states : \A j \in DOMAIN prev.states[k].kernel :
            prev.states[k].kernel[j].lookaheads =
                Lr1Lookaheads(states, prev.states[k].kernel, prev.states[k].kernel[j])

\* A state as the reduction builders receive it
Unreduced(state) == [state EXCEPT !.reductions = <<>>]

\* C8: on every state of the LR(1) graph, every reduction recorded by
\* build_reductions_lr1 is recorded by build_reductions_rnglr1 as well.
RnglrExtendsLr1 ==
    (pc = "reductions" /\ idx = 0 /\ GraphMode(method) = "LR1") =>
        \A k \in DOMAIN states :
            Range(StateBuildReductionsLr1(Unreduced(states[k]), k - 1, grammar).reductions)
                \subseteq
            Range(StateBuildReductionsRnglr1(Unreduced(states[k]), k - 1, grammar).reductions)

\* The suffix of the rule from the dot position on can derive the empty word
NullableFrom(rule, position) ==
    Epsilon \in GetRuleIn(grammar, rule).choices[position + 1].firsts

RuleLen(rule) == Len(GetRuleIn(grammar, rule).choices[1].parts)

\* C9: under RNGLR1 and RNGLALR1 a reduction shorter than its rule comes from
\* an item of the state with the dot at that length and a nullable suffix,
\* the last item of every conflict (the one that raised it) is a reducing
\* item or an item with a nullable suffix, and under LR1 and LALR1 every
\* reduction has the length of its rule.
ShortReductionsAreNullable ==
    /\ method \in {"RNGLR1", "RNGLALR1"} =>
          /\ \A k \in DOMAIN states : \A r \in Range(states[k].reductions) :
                /\ r.length <= RuleLen(r.rule)
                /\ \E i \in DOMAIN states[k].items :
                      states[k].items[i].rule = r.rule /\ states[k].items[i].position = r.length
                /\ r.length < RuleLen(r.rule) => NullableFrom(r.rule, r.length)
          /\ \A c \in Range(conflicts) :
                LET last == c.items[Len(c.items)]
                IN GetAction(grammar, last) = "Shift" =>
                      NullableFrom(last.rule, last.position)
    /\ method \in {"LR1", "LALR1"} =>
          \A k \in DOMAIN states : \A r \in Range(states[k].reductions) :
              r.length = RuleLen(r.rule)

ShortReductionsAreNullableWitness ==
    /\ pc = "done"
    /\ method \in {"RNGLR1", "RNGLALR1"}
    /\ \E k \in DOMAIN states : \E r \in Range(states[k].reductions) :
          r.length < RuleLen(r.rule)
    /\ \E k \in DOMAIN states : \E i \in DOMAIN states[k].items :
          /\ GetAction(grammar, states[k].items[i]) = "Shift"
          /\ ~NullableFrom(states[k].items[i].rule, states[k].items[i].position)
          /\ states[k].items[i].lookaheads # {}

\* The terminals the symbol after the dot gives to an opened context
Emits(next, t) ==
    CASE next.s = "Terminal" -> t = Terminal(next.id)
      [] next.s \in {"Epsilon", "Dollar", "Dummy", "NullTerminal"} ->
            t.t = next.s
      [] next.s = "Virtual" ->
            \E k \in DOMAIN grammar.variables :
                grammar.variables[k].id = next.id /\ t \in grammar.variables[k].firsts
      [] OTHER -> FALSE

ContextsAttached(sts) ==
    \A k \in DOMAIN sts : \A t \in DOMAIN sts[k].opening_contexts :
        LET contexts == sts[k].opening_contexts[t]
        IN /\ \A c \in DOMAIN contexts :
                 /\ contexts[c] # 0
                 /\ \E i \in DOMAIN sts[k].items :
                       /\ sts[k].items[i].position = 0
                       /\ GetRuleIn(grammar, sts[k].items[i].rule).context = contexts[c]
                       /\ Emits(GetNextSymbol(grammar, sts[k].items[i]), t)
           /\ \A c, d \in DOMAIN contexts : c # d => contexts[c] # contexts[d]

\* C10: every context listed for a terminal t in a state belongs to an item
\* of the state at position 0 whose rule has that (non-zero) context and
\* whose next symbol gives t, and no context is listed twice.
ContextAttachment == ContextsAttached(states) /\ ContextsAttached(graph0)

ContextAttachmentWitness ==
    /\ pc = "done"
    /\ \E k \in DOMAIN states : \E t \in DOMAIN states[k].opening_contexts :
          /\ Len(states[k].opening_contexts[t]) >= 2
          /\ Cardinality({ i \in DOMAIN states[k].items :
                             /\ GetOpenedContext(grammar, states[k].items[i]) # <<>>
                             /\ Emits(GetNextSymbol(grammar, states[k].items[i]), t) }) >= 3

\* The kernel items of the states are held, unchanged, in their item lists
KernelsKept(sts) ==
    \A k \in DOMAIN sts : \A j \in DOMAIN sts[k].kernel :
        \E i \in DOMAIN sts[k].items :
            /\ sts[k].items[i].rule = sts[k].kernel[j].rule
            /\ sts[k].items[i].position = sts[k].kernel[j].position
            /\ sts[k].items[i].lookaheads = sts[k].kernel[j].lookaheads

\* C11: under every method, every kernel item of every state, of the graph
\* under construction, of the LR(0) skeleton and of the returned graph, is in
\* the item list of the state with the same rule, position and lookaheads.
KernelItemsInItems == KernelsKept(states) /\ KernelsKept(graph0)

\* A returned LALR(1) state in which the closure merged lookaheads: two of
\* its items give different lookaheads to the rules of the same variable
KernelItemsInItemsWitness ==
    /\ pc = "done"
    /\ UsesLalr1(method)
    /\ \E k \in DOMAIN states : \E i, j \in DOMAIN states[k].items :
          /\ GetNextSymbol(grammar, states[k].items[i]).s = "Variable"
          /\ GetNextSymbol(grammar, states[k].items[i]) =
                GetNextSymbol(grammar, states[k].items[j])
          /\ CloseFirsts(grammar, states[k].items[i]) #
                CloseFirsts(grammar, states[k].items[j])
          /\ states[k].kernel # <<>>
          /\ \E n \in DOMAIN states[k].kernel : states[k].kernel[n].lookaheads # {}

\* The indices of the reducing items of a state, and the first of them
Reducers(state) ==
    { i \in DOMAIN state.items : GetAction(grammar, state.items[i]) = "Reduce" }

FirstReducer(state) ==
    CHOOSE i \in Reducers(state) : \A j \in Reducers(state) : i <= j

\* The indices of the returned conflicts of a kind for the state
ConflictsOf(id, kind) ==
    { c \in DOMAIN conflicts : conflicts[c].state = id /\ conflicts[c].kind = kind }

\* C12: in a graph built with LR0, a state without reducing item records no
\* reduction; a state with reducing items records one reduction, of the rule
\* of the first of them, on NullTerminal and of the length of its position;
\* the later reducing items are the items of one ReduceReduce conflict on
\* NullTerminal, after the first one; and in a state with transitions all
\* the reducing items are in one ShiftReduce conflict on NullTerminal.
Lr0Reductions ==
    (pc = "done" /\ method = "LR0") =>
        \A k \in DOMAIN states :
            LET state == states[k]
                first == state.items[FirstReducer(state)]
                later == Reducers(state) \ {FirstReducer(state)}
                rr == ConflictsOf(k - 1, "ReduceReduce")
                sr == ConflictsOf(k - 1, "ShiftReduce")
            IN /\ \A c \in rr \cup sr : conflicts[c].lookahead = NullTerminal
               /\ IF Reducers(state) = {}
                  THEN state.reductions = <<>> /\ rr = {} /\ sr = {}
                  ELSE /\ state.reductions =
                             <<Reduction(NullTerminal, first.rule, first.position)>>
                       /\ IF later = {} THEN rr = {}
                          ELSE /\ Cardinality(rr) = 1
                               /\ \A c \in rr :
                                     /\ conflicts[c].items[1] = first
                                     /\ Len(conflicts[c].items) = 1 + Cardinality(later)
                                     /\ \A i \in later :
                                           Contains(Tail(conflicts[c].items), state.items[i])
                       /\ IF state.children = NoChildren THEN sr = {}
                          ELSE /\ Cardinality(sr) = 1
                               /\ \A c \in sr : \A i \in Reducers(state) :
                                     Contains(conflicts[c].items, state.items[i])

\* An LR(0) state with transitions and several reducing items
Lr0ReductionsWitness ==
    /\ pc = "done"
    /\ method = "LR0"
    /\ \E k \in DOMAIN states :
          /\ Cardinality(Reducers(states[k])) >= 2
          /\ states[k].children # NoChildren
          /\ ConflictsOf(k - 1, "ReduceReduce") # {}
          /\ ConflictsOf(k - 1, "ShiftReduce") # {}

\* What the state builder of the method gives for the state at index n - 1
BuiltAt(n) == StateBuildReductions(method, Unreduced(states[n]), n - 1, grammar)

\* The conflicts of the first n states, state after state
RECURSIVE ConflictsUpTo(_)
ConflictsUpTo(n) ==
    IF n = 0 THEN <<>> ELSE ConflictsUpTo(n - 1) \o BuiltAt(n).conflicts

\* C13: under every method, after the graph-level builder has visited the
\* states before idx, these states have their reductions and the conflicts
\* are those of these states, in the order of the states; the builder ends
\* only once every state is visited, whatever conflicts were found, and the
\* graph is then returned with the conflicts of all its states.
ConflictsNeverAbort ==
    pc \in {"reductions", "done"} =>
        /\ idx <= Len(states)
        /\ pc = "done" => idx = Len(states)
        /\ \A k \in 1..idx : states[k].reductions = BuiltAt(k).reductions
        /\ \A k \in (idx + 1)..Len(states) : states[k].reductions = <<>>
        /\ conflicts = ConflictsUpTo(idx)

\* A returned graph with conflicts in two states and a state with
\* reductions after the first state with a conflict
ConflictsNeverAbortWitness ==
    /\ pc = "done"
    /\ \E c, d \in DOMAIN conflicts :
          /\ c < d
          /\ conflicts[c].state < conflicts[d].state
          /\ \E k \in DOMAIN states :
                /\ conflicts[c].state < k - 1
                /\ k - 1 < conflicts[d].state
                /\ states[k].reductions # <<>>
                /\ \A e \in DOMAIN conflicts : conflicts[e].state # k - 1

\* The terminals that a lookahead set may hold
LookaheadUniverse ==
    {Epsilon, Dollar, Dummy} \cup
    UNION { grammar.variables[v].firsts : v \in DOMAIN grammar.variables }

NumRules ==
    Cardinality(UNION { {v} \X DOMAIN grammar.variables[v].rules :
                          v \in DOMAIN grammar.variables })

\* The number of items that a closure in the mode can add to a kernel: one
\* per rule in LALR1 mode, one per rule and terminal in LR1 mode, one per
\* rule and set of terminals in LR0 mode
ClosureBound(mode) ==
    CASE mode = "LALR1" -> NumRules
      [] mode = "LR1" -> NumRules * Cardinality(LookaheadUniverse)
      [] OTHER -> NumRules * (2 ^ Cardinality(LookaheadUniverse))

\* The loop of into_state ran once per item of the list it returned, a
\* number bounded by the size of the kernel and the mode
IntoStateEnded(sts, mode) ==
    \A k \in DOMAIN sts :
        Len(sts[k].items) <= Len(sts[k].kernel) + ClosureBound(mode)

\* C14: build_graph terminates under every method: the loop of into_state
\* ends within a bounded number of iterations in each mode, and the loop of
\* Graph::from, the propagation loop and the reduction builders end, so that
\* the graph is returned.
Termination ==
    /\ [](IntoStateEnded(states, StatesMode) /\ IntoStateEnded(graph0, "LR0"))
    /\ <>(pc = "done")

\* A returned LALR(1) graph whose propagation loop inserted lookaheads and
\* whose closures added items
TerminationWitness ==
    /\ pc = "done"
    /\ UsesLalr1(method)
    /\ Len(states) >= 4
    /\ kernels # BuildGraphLalr1PropagationTable(graph0, grammar,
                      BuildGraphLalr1Kernels(graph0)).kernels
    /\ \E k \in DOMAIN states : Len(states[k].items) > Len(states[k].kernel) + 2

\* C15: a call of raise_shift_reduce or raise_reduce_reduce changes an
\* existing conflict of the list only if that conflict has the state_id of
\* the call; with no conflict of that state_id in the list it pushes a new
\* conflict carrying the state_id.
RaiseMergesWithinState ==
    pc = "raised" =>
        /\ \A k \in DOMAIN prev.conflicts :
              conflicts[k] # prev.conflicts[k] => conflicts[k].state = idx
        /\ (\A k \in DOMAIN prev.conflicts : prev.conflicts[k].state # idx) =>
              /\ Len(conflicts) = Len(prev.conflicts) + 1
              /\ conflicts[Len(conflicts)].state = idx

\* C16: under every method, in the conflicts gathered so far and in the
\* conflicts returned, no two entries have the same state, kind and
\* lookahead, and every item of a conflict is an item of the state of the
\* conflict: the conflicts of different states are never coalesced.
ConflictsKeyedByState ==
    pc \in {"reductions", "done"} =>
        /\ \A c, d \in DOMAIN conflicts :
              (/\ conflicts[c].state = conflicts[d].state
               /\ conflicts[c].kind = conflicts[d].kind
               /\ conflicts[c].lookahead = conflicts[d].lookahead) => c = d
        /\ \A c \in DOMAIN conflicts :
              /\ conflicts[c].state \in 0..(Len(states) - 1)
              /\ \A i \in DOMAIN conflicts[c].items :
                    Contains(states[conflicts[c].state + 1].items, conflicts[c].items[i])

\* Returned conflicts of two states with the same kind and lookahead
ConflictsKeyedByStateWitness ==
    /\ pc = "done"
    /\ \E c, d \in DOMAIN conflicts :
          /\ conflicts[c].state # conflicts[d].state
          /\ conflicts[c].kind = conflicts[d].kind
          /\ conflicts[c].lookahead = conflicts[d].lookahead
          /\ conflicts[c].lookahead # NullTerminal
          /\ Len(conflicts[c].items) >= 2

\* The kernels as build_graph_lalr1_propagation_table leaves them, with the
\* lookaheads generated spontaneously
SpontaneousKernels ==
    BuildGraphLalr1PropagationTable(graph0, grammar,
                                    BuildGraphLalr1Kernels(graph0)).kernels

\* Every lookahead set of ks is within the set at the same place in ls
LookaheadsWithin(ks, ls) ==
    /\ DOMAIN ks = DOMAIN ls
    /\ \A k \in DOMAIN ks :
          /\ DOMAIN ks[k] = DOMAIN ls[k]
          /\ \A j \in DOMAIN ks[k] : ks[k][j].lookaheads \subseteq ls[k][j].lookaheads

\* C17: once build_graph_lalr1_propagate has returned, every entry of the
\* propagation table has the lookaheads of its source kernel item within
\* those of its destination kernel item; every pass of the loop only adds
\* terminals to the lookahead sets; and during and after propagation the
\* terminals generated spontaneously are still there.
PropagationFixpoint ==
    /\ [](pc \in {"link", "reductions", "done"} /\ UsesLalr1(method) =>
             \A p \in DOMAIN propagation :
                 kernels[propagation[p].from_state + 1][propagation[p].from_item + 1].lookaheads
                     \subseteq
                 kernels[propagation[p].to_state + 1][propagation[p].to_item + 1].lookaheads)
    /\ [](pc \in {"propagate", "link", "reductions", "done"} /\ UsesLalr1(method) =>
             LookaheadsWithin(SpontaneousKernels, kernels))
    /\ [][pc = "propagate" => LookaheadsWithin(kernels, kernels')]_vars

\* The propagation loop has returned after adding terminals to the kernels
PropagationFixpointWitness ==
    /\ pc = "link"
    /\ propagation # <<>>
    /\ kernels # SpontaneousKernels
    /\ \E k \in DOMAIN SpontaneousKernels : \E j \in DOMAIN SpontaneousKernels[k] :
          /\ k > 1
          /\ SpontaneousKernels[k][j].lookaheads # {}
          /\ SpontaneousKernels[k][j].lookaheads # kernels[k][j].lookaheads

\* C18: the graph that get_graph_lalr1 returns has as many states as the
\* LR(0) graph it was built from and, index by index, the same children,
\* the same opening contexts, a kernel with the same (rule, position) bases
\* and an item list with the same set of bases.
LalrKeepsSkeleton ==
    (UsesLalr1(method) /\ pc \in {"reductions", "done"}) =>
        /\ Len(states) = Len(graph0)
        /\ \A k \in DOMAIN states :
              /\ states[k].children = graph0[k].children
              /\ states[k].opening_contexts = graph0[k].opening_contexts
              /\ Len(states[k].kernel) = Len(graph0[k].kernel)
              /\ \A j \in DOMAIN states[k].kernel :
                    SameBase(states[k].kernel[j], graph0[k].kernel[j])
              /\ Bases(states[k].items) = Bases(graph0[k].items)

\* A returned LALR(1) graph with opening contexts whose items differ from
\* those of the LR(0) graph
LalrKeepsSkeletonWitness ==
    /\ pc = "done"
    /\ UsesLalr1(method)
    /\ Len(states) >= 5
    /\ \E k \in DOMAIN states : states[k].opening_contexts # NoContexts
    /\ \E k \in DOMAIN states : states[k].items # graph0[k].items

\* C19: for every kernel i, every shifting item K of it and every item D
\* with a next symbol S of the LALR1 closure of the dummy kernel of K, the
\* LR(0) state i has a transition on S and the kernel of its target holds
\* an item of the base of the child of D: both lookups of the propagation
\* table succeed.
TableLookupsSucceed ==
    pc \in {"table", "propagate", "link"} =>
        \A i \in DOMAIN kernels : \A item_id \in DOMAIN kernels[i] :
            GetAction(grammar, kernels[i][item_id]) = "Shift" =>
                LET dummy_items == DummyState(grammar, kernels[i][item_id]).items
                IN \A d \in DOMAIN dummy_items :
                      LET next_symbol == GetNextSymbol(grammar, dummy_items[d])
                          child_state == ChildState(graph0, i - 1, next_symbol)
                      IN next_symbol # NoSymbol =>
                            /\ child_state # <<>>
                            /\ ChildItem(kernels[child_state[1] + 1],
                                         GetChild(dummy_items[d])) # <<>>

\* The table is built, from a kernel item whose dummy closure has several
\* items with a next symbol
TableLookupsSucceedWitness ==
    /\ pc = "propagate"
    /\ Len(propagation) >= 3
    /\ \E i \in DOMAIN kernels : \E item_id \in DOMAIN kernels[i] :
          /\ i > 1
          /\ GetAction(grammar, kernels[i][item_id]) = "Shift"
          /\ Len(DummyState(grammar, kernels[i][item_id]).items) >= 3

\* The items of the states are deduplicated as the mode demands
Deduplicated(sts, mode) ==
    \A k \in DOMAIN sts :
        IF mode = "LR1"
        THEN \A i \in DOMAIN sts[k].items :
                i > Len(sts[k].kernel) => Cardinality(sts[k].items[i].lookaheads) = 1
        ELSE \A i, j \in DOMAIN sts[k].items :
                SameBase(sts[k].items[i], sts[k].items[j]) => i = j

\* C20: in every state closed in LR0 mode or in LALR1 mode no two items of
\* the item list have the same rule and position, and in every state closed
\* in LR1 mode every item that the closure added has exactly one lookahead.
ClosureDeduplicates ==
    Deduplicated(states, StatesMode) /\ Deduplicated(graph0, "LR0")

(***************************************************************************)
(* C21: kernel equality                                                    *)
(***************************************************************************)
\* Same length and each kernel contains every item of the other
MutualContainment(k1, k2) ==
    /\ Len(k1) = Len(k2)
    /\ \A k \in DOMAIN k1 : Contains(k2, k1[k])
    /\ \A k \in DOMAIN k2 : Contains(k1, k2[k])

\* The same items in another order
Reordered(k) ==
    { [i \in DOMAIN k |-> k[p[i]]] : p \in Perms(DOMAIN k) }

\* C21: k1 == k2 holds exactly when the two kernels have the same length and
\* each contains every item of the other, duplicates allowed; the relation is
\* symmetric and does not depend on the order of the items.
KernelEqualityIsMutual ==
    pc = "compared" =>
        LET k1 == kernels[1]
            k2 == kernels[2]
        IN /\ (idx = 1) <=> MutualContainment(k1, k2)
           /\ KernelEq(k1, k2) <=> KernelEq(k2, k1)
           /\ \A r1 \in Reordered(k1) : \A r2 \in Reordered(k2) :
                 KernelEq(r1, r2) <=> (idx = 1)

(***************************************************************************)
(* C22: discovery order                                                    *)
(***************************************************************************)
\* The indices of the states that the states of indices in seen lead to
Targets(sts, seen) ==
    UNION { { sts[i + 1].children[sym] : sym \in DOMAIN sts[i + 1].children } : i \in seen }

\* The indices of the states reachable from the states of indices in seen
RECURSIVE ReachableFrom(_, _)
ReachableFrom(sts, seen) ==
    LET more == seen \cup Targets(sts, seen)
    IN IF more = seen THEN seen ELSE ReachableFrom(sts, more)

\* State 0 is what into_state gives for the kernel made of the axiom item
\* alone
AxiomClosure(state, mode) ==
    /\ Len(state.kernel) = 1
    /\ SameBase(state.kernel[1], AxiomItem(grammar))
    /\ state.kernel[1].rule.index = 0 /\ state.kernel[1].position = 0
    /\ state.items = CloseFrom(grammar, state.kernel, 0, mode)

\* Every state but state 0 is the target of a transition of a state of lower
\* index, and every dot is within its rule
DiscoveryOrdered(sts) ==
    /\ \A j \in 1..(Len(sts) - 1) :
          \E i \in 0..(j - 1) : j \in Targets(sts, {i})
    /\ \A k \in DOMAIN sts : \A i \in DOMAIN sts[k].items :
          sts[k].items[i].position \in 0..PartsLen(grammar, sts[k].items[i])

\* C22: in the graph returned, under every method, state 0 is the closure of
\* the item (axiom rule 0, position 0) and every state is reachable from
\* state 0; there and in the graphs under construction, every state of index
\* j > 0 is the target of a transition of a state of index i < j, and every
\* item of every state has its dot between 0 and the number of parts of its
\* rule.
DiscoveryOrder ==
    /\ DiscoveryOrdered(states)
    /\ DiscoveryOrdered(graph0)
    /\ pc = "done" =>
          /\ AxiomClosure(states[1], StatesMode)
          /\ ReachableFrom(states, {0}) = 0..(Len(states) - 1)

\* A returned LALR(1) graph with a state first reached from a state other
\* than state 0, a transition back to a state of lower or equal index, and a
\* state that can be reached only through another state
DiscoveryOrderWitness ==
    /\ pc = "done"
    /\ method = "LALR1"
    /\ \E j \in 1..(Len(states) - 1) :
          /\ j \notin Targets(states, {0})
          /\ \E i \in 1..(j - 1) : j \in Targets(states, {i})
    /\ \E i \in 1..(Len(states) - 1) : \E j \in 0..i : j \in Targets(states, {i})
    /\ \E k \in DOMAIN states : \E i \in DOMAIN states[k].items :
          states[k].items[i].position = PartsLen(grammar, states[k].items[i])

(***************************************************************************)
(* C23: the items of a shift/reduce conflict                               *)
(***************************************************************************)
\* The conflict lists the items of its state that shift on its lookahead,
\* at least one, and after them only items of the state that do not shift on
\* it, at least one
ShiftingThenReducing(c) ==
    LET state == states[c.state + 1]
        shifting == ItemsShiftingOn(grammar, state.items, TermToSym(c.lookahead))
    IN /\ shifting # <<>>
       /\ Len(c.items) > Len(shifting)
       /\ SubSeq(c.items, 1, Len(shifting)) = shifting
       /\ \A k \in (Len(shifting) + 1)..Len(c.items) :
             /\ Contains(state.items, c.items[k])
             /\ GetNextSymbol(grammar, c.items[k]) # TermToSym(c.lookahead)

\* C23: under every method, LR0 with its NullTerminal lookahead included,
\* every ShiftReduce conflict returned lists at least one item of its state
\* whose next symbol is the lookahead of the conflict, and after the
\* shifting items the reducing items that raised it.
ShiftReduceListsShift ==
    pc = "done" =>
        \A k \in DOMAIN conflicts :
            conflicts[k].kind = "ShiftReduce" => ShiftingThenReducing(conflicts[k])

====
